---- MODULE Spec2Model ----
(***************************************************************************)
(* State-machine model of the transformer library (src/Transformer.cpp):   *)
(* the TransformationTree (edge list plus bounded breadth-first chain      *)
(* search), the TransformationMakerBase (composition of a chain at a       *)
(* time) and the Transformer facade (static / dynamic pushes, stream       *)
(* table, re-resolution of the makers).                                    *)
(***************************************************************************)
EXTENDS Integers, Sequences, FiniteSets, TLC

VARIABLES
    availableElements,      \* TransformationTree::availableElements
    transformToStreamIndex, \* Transformer::transformToStreamIndex
    aggregator,             \* the stream aggregator: one sample buffer per stream
    transformationMakers,   \* Transformer::transformationMakers
    lastCall                \* the most recent API call, its arguments and results

vars == <<availableElements, transformToStreamIndex, aggregator,
          transformationMakers, lastCall>>

-----------------------------------------------------------------------------
(* Bounds of the model *)

\* TransformationTree::maxSeekDepth (the search depth limit), cut down
maxSeekDepth == 2
\* number of addTransformation calls explored under Spec
MaxAdds == 3
\* number of addTransformation calls explored under SpecTree
MaxTreeAdds == 3
\* number of addTransformation calls explored under SpecSquare
MaxSquareAdds == 4
\* number of addTransformation calls explored under SpecStreams
MaxStreamAdds == 3

\* number of addTransformation calls explored under SpecSeek
MaxSeekAdds == 3

\* number of registered makers
MaxMakers == 2

-----------------------------------------------------------------------------
(* Rigid transformations: the six rotations/reflections of a triangle, as   *)
(* permutations of 1..3.  Composition is associative and non-commutative.   *)

Identity == <<1, 2, 3>>
R == <<2, 3, 1>>
S == <<2, 1, 3>>

\* Eigen product a * b: apply b first, then a
Mul(a, b) == [i \in 1..3 |-> a[b[i]]]

\* Eigen inverse()
Inverse(a) == [i \in 1..3 |-> CHOOSE j \in 1..3 : a[j] = i]

\* a getTransformation result: the returned bool and the out-parameter
Sample(tr) == [found |-> TRUE, tr |-> tr]
NoSample == [found |-> FALSE, tr |-> Identity]

\* a pointer is the empty tuple (NULL) or the one-tuple of what it points to
NULL == <<>>

Frames == {"A", "B", "C", "D"}

StaticTransforms == {R, S}
DynamicTransforms == {S}
Times == {1, 2}

-----------------------------------------------------------------------------
(* TransformationElement and its three kinds *)

StaticTransformationElement(from, to, tr) ==
    [kind |-> "static", sourceFrame |-> from, targetFrame |-> to,
     staticTransform |-> tr, streamIdx |-> -1, nonInverseElement |-> 0]

DynamicTransformationElement(from, to, idx) ==
    [kind |-> "dynamic", sourceFrame |-> from, targetFrame |-> to,
     staticTransform |-> Identity, streamIdx |-> idx, nonInverseElement |-> 0]

\* wraps the element at position `pos` of the list; the frames are swapped
InverseTransformationElement(element, pos) ==
    [kind |-> "inverse", sourceFrame |-> element.targetFrame,
     targetFrame |-> element.sourceFrame,
     staticTransform |-> Identity, streamIdx |-> -1, nonInverseElement |-> pos]

\* an add that drops an element the list already holds
addTransformation_Deduplicating(elements, element) ==
    IF \E k \in 1..Len(elements) : elements[k] = element
    THEN elements
    ELSE LET withElement == Append(elements, element)
         IN  Append(withElement,
                    InverseTransformationElement(element, Len(withElement)))

\* TransformationTree::addTransformation: the element, then its inverse
addTransformation(elements, element) ==
    LET withElement == Append(elements, element)
    IN  Append(withElement, InverseTransformationElement(element, Len(withElement)))

-----------------------------------------------------------------------------
(* The search tree of getTransformationChain *)

\* TransformationNode(frameName, parent, parentToCurNode); childs are computed
TransformationNode(frameName, parent, parentToCurNode) ==
    [frameName |-> frameName, parent |-> parent, parentToCurNode |-> parentToCurNode]

RECURSIVE MatchingFrom_NoGuard(_, _, _, _)
\* an expansion without the check against the parent's frame
MatchingFrom_NoGuard(elements, from, node, k) ==
    IF k > Len(elements) THEN <<>>
    ELSE LET e == elements[k]
             rest == MatchingFrom_NoGuard(elements, from, node, k + 1)
         IN  IF e.sourceFrame = from
             THEN <<TransformationNode(e.targetFrame, <<node>>, k)>> \o rest
             ELSE rest

RECURSIVE MatchingFrom(_, _, _, _)
\* the loop of addMatchingTransforms from list position k on
MatchingFrom(elements, from, node, k) ==
    IF k > Len(elements) THEN <<>>
    ELSE LET e == elements[k]
             rest == MatchingFrom(elements, from, node, k + 1)
         IN  IF e.sourceFrame = from
             THEN IF node.parent # NULL /\ node.parent[1].frameName = e.targetFrame
                  THEN rest
                  ELSE <<TransformationNode(e.targetFrame, <<node>>, k)>> \o rest
             ELSE rest

\* TransformationTree::addMatchingTransforms: the childs given to `node`
addMatchingTransforms(elements, from, node) ==
    MatchingFrom(elements, from, node, 1)

RECURSIVE LastMatchFrom(_, _, _)
LastMatchFrom(to, childs, k) ==
    IF k = 0 THEN 0
    ELSE IF childs[k].frameName = to THEN k
    ELSE LastMatchFrom(to, childs, k - 1)

\* a lookup that answers with the last matching child
checkForMatchingChildFrame_Last(to, childs) ==
    LastMatchFrom(to, childs, Len(childs))

RECURSIVE FirstMatchFrom(_, _, _)
FirstMatchFrom(to, childs, k) ==
    IF k > Len(childs) THEN 0
    ELSE IF childs[k].frameName = to THEN k
    ELSE FirstMatchFrom(to, childs, k + 1)

\* TransformationTree::checkForMatchingChildFrame: position of the first
\* child whose frame is `to`, 0 for childs.end()
checkForMatchingChildFrame(to, childs) ==
    FirstMatchFrom(to, childs, 1)

RECURSIVE WalkToRoot_RootFirst(_, _)
\* a walk that hands the chain back root first
WalkToRoot_RootFirst(curNode, result) ==
    IF curNode.parent = NULL THEN result
    ELSE Append(WalkToRoot_RootFirst(curNode.parent[1], result),
                curNode.parentToCurNode)

RECURSIVE WalkToRoot(_, _)
\* the while(curNode->parent) loop: push_back from the found node upwards
WalkToRoot(curNode, result) ==
    IF curNode.parent = NULL THEN result
    ELSE WalkToRoot(curNode.parent[1], Append(result, curNode.parentToCurNode))

RECURSIVE ExpandLevel(_, _, _, _, _, _)
\* the inner loop over curLevel, from position k on
ExpandLevel(elements, to, curLevel, k, nextLevel, result) ==
    IF k > Len(curLevel)
    THEN [found |-> FALSE, result |-> result, nextLevel |-> nextLevel]
    ELSE LET node == curLevel[k]
             childs == addMatchingTransforms(elements, node.frameName, node)
             candidate == checkForMatchingChildFrame(to, childs)
         IN  IF candidate # 0
             THEN [found |-> TRUE,
                   result |-> WalkToRoot(childs[candidate], result),
                   nextLevel |-> <<>>]
             ELSE ExpandLevel(elements, to, curLevel, k + 1,
                              nextLevel \o childs, result)

RECURSIVE SeekLevels_OneMore(_, _, _, _, _)
\* a search that expands one level too many
SeekLevels_OneMore(elements, to, i, curLevel, result) ==
    IF ~(i <= maxSeekDepth /\ Len(curLevel) > 0)
    THEN [found |-> FALSE, result |-> result]
    ELSE LET level == ExpandLevel(elements, to, curLevel, 1, <<>>, result)
         IN  IF level.found
             THEN [found |-> TRUE, result |-> level.result]
             ELSE SeekLevels_OneMore(elements, to, i + 1, level.nextLevel, result)

RECURSIVE AllChilds(_, _, _)
\* the childs of all nodes of a level, from position k on
AllChilds(elements, curLevel, k) ==
    IF k > Len(curLevel) THEN <<>>
    ELSE addMatchingTransforms(elements, curLevel[k].frameName, curLevel[k])
            \o AllChilds(elements, curLevel, k + 1)

RECURSIVE SeekLevels_KeepSeeking(_, _, _, _, _)
\* a search that does not return at the first match: a match on a deeper
\* level replaces it
SeekLevels_KeepSeeking(elements, to, i, curLevel, result) ==
    IF ~(i < maxSeekDepth /\ Len(curLevel) > 0)
    THEN [found |-> FALSE, result |-> result]
    ELSE LET level == ExpandLevel(elements, to, curLevel, 1, <<>>, result)
             deeper == SeekLevels_KeepSeeking(elements, to, i + 1,
                            AllChilds(elements, curLevel, 1), result)
         IN  IF deeper.found THEN deeper
             ELSE [found |-> level.found, result |-> level.result]

RECURSIVE SeekLevels(_, _, _, _, _)
\* the outer loop: for(i = 0; i < maxSeekDepth && curLevel.size(); i++)
SeekLevels(elements, to, i, curLevel, result) ==
    IF ~(i < maxSeekDepth /\ Len(curLevel) > 0)
    THEN [found |-> FALSE, result |-> result]
    ELSE LET level == ExpandLevel(elements, to, curLevel, 1, <<>>, result)
         IN  IF level.found
             THEN [found |-> TRUE, result |-> level.result]
             ELSE SeekLevels(elements, to, i + 1, level.nextLevel, result)

\* TransformationTree::getTransformationChain(from, to, result):
\* the returned bool and the caller's vector afterwards
getTransformationChain(elements, from, to, result) ==
    SeekLevels(elements, to, 0, <<TransformationNode(from, NULL, 0)>>, result)

-----------------------------------------------------------------------------
(* The stream aggregator (an external collaborator): registerStream hands   *)
(* out the next free index, push appends a sample to the stream's buffer,   *)
(* and a lookup answers with the latest sample at or before the time.       *)

\* aggregator.registerStream<Transformation>(NULL, 0, base::Time(), 10)
registerStream(agg) ==
    [index |-> Len(agg), aggregator |-> Append(agg, <<>>)]

\* aggregator.push(idx, time, sample)
aggregatorPush(agg, idx, time, sample) ==
    [agg EXCEPT ![idx + 1] = Append(@, [time |-> time, transform |-> sample])]

\* interpolation of two bracketing samples (equal samples blend to themselves)
Interpolate(before, after) ==
    IF before = after THEN before ELSE after

\* the sample of stream idx at atTime, or NoSample
aggregatorQuery(agg, idx, atTime, doInterpolation) ==
    LET buffer == agg[idx + 1]
        atOrBefore == {k \in 1..Len(buffer) : buffer[k].time <= atTime}
        later == {k \in 1..Len(buffer) : buffer[k].time > atTime}
    IN  IF atOrBefore = {} THEN NoSample
        ELSE LET b == CHOOSE k \in atOrBefore : \A j \in atOrBefore : j <= k
             IN  IF doInterpolation /\ later # {} /\ buffer[b].time < atTime
                 THEN LET a == CHOOSE k \in later : \A j \in later : k <= j
                      IN  Sample(Interpolate(buffer[b].transform, buffer[a].transform))
                 ELSE Sample(buffer[b].transform)

-----------------------------------------------------------------------------
(* TransformationElement::getTransformation of the three kinds: the         *)
(* returned bool with the out-parameter tr (NoSample for a false return)    *)

StaticGetTransformation(element) == Sample(element.staticTransform)

DynamicGetTransformation(agg, element, atTime, doInterpolation) ==
    aggregatorQuery(agg, element.streamIdx, atTime, doInterpolation)

RECURSIVE ElementGetTransformation(_, _, _, _, _)

\* an inverse element that hands the wrapped element's transform through
InverseGetTransformation_NotInverted(elements, agg, element, atTime, doInterpolation) ==
    ElementGetTransformation(elements, agg, element.nonInverseElement,
                             atTime, doInterpolation)

\* InverseTransformationElement::getTransformation
InverseGetTransformation(elements, agg, element, atTime, doInterpolation) ==
    LET tr == ElementGetTransformation(elements, agg, element.nonInverseElement,
                                       atTime, doInterpolation)
    IN  IF tr.found THEN Sample(Inverse(tr.tr)) ELSE NoSample

\* the virtual call (*it)->getTransformation(time, doInterpolation, tr) on the
\* element at position pos
ElementGetTransformation(elements, agg, pos, atTime, doInterpolation) ==
    LET element == elements[pos]
    IN  CASE element.kind = "static" -> StaticGetTransformation(element)
          [] element.kind = "dynamic" ->
                DynamicGetTransformation(agg, element, atTime, doInterpolation)
          [] OTHER ->
                InverseGetTransformation(elements, agg, element, atTime, doInterpolation)

-----------------------------------------------------------------------------
(* TransformationMakerBase *)

Transformation(transform, from, to, time) ==
    [transform |-> transform, from |-> from, to |-> to, time |-> time]

\* a default-constructed Transformation, as a caller holds before the call
UnsetTransformation == Transformation(Identity, "", "", 0)

TransformationMaker(sourceFrame, targetFrame, chain) ==
    [sourceFrame |-> sourceFrame, targetFrame |-> targetFrame,
     transformationChain |-> chain]

RECURSIVE ApplyChain_LeftProduct(_, _, _, _, _, _, _, _)
\* a loop that multiplies each sample on the left
ApplyChain_LeftProduct(elements, agg, maker, time, doInterpolation, k, transformation, sampled) ==
    IF k > Len(maker.transformationChain)
    THEN [found |-> TRUE, transformation |-> transformation, sampled |-> sampled]
    ELSE LET pos == maker.transformationChain[k]
             tr == ElementGetTransformation(elements, agg, pos, time, doInterpolation)
         IN  IF ~tr.found
             THEN [found |-> FALSE, transformation |-> transformation,
                   sampled |-> Append(sampled, pos)]
             ELSE ApplyChain_LeftProduct(elements, agg, maker, time, doInterpolation,
                             k + 1,
                             [transformation EXCEPT !.transform = Mul(tr.tr, @)],
                             Append(sampled, pos))

RECURSIVE ApplyChain(_, _, _, _, _, _, _, _)
\* the loop over transformationChain from position k on; `sampled` lists the
\* elements whose getTransformation has been called so far
ApplyChain(elements, agg, maker, time, doInterpolation, k, transformation, sampled) ==
    IF k > Len(maker.transformationChain)
    THEN [found |-> TRUE, transformation |-> transformation, sampled |-> sampled]
    ELSE LET pos == maker.transformationChain[k]
             tr == ElementGetTransformation(elements, agg, pos, time, doInterpolation)
         IN  IF ~tr.found
             THEN [found |-> FALSE, transformation |-> transformation,
                   sampled |-> Append(sampled, pos)]
             ELSE ApplyChain(elements, agg, maker, time, doInterpolation, k + 1,
                             [transformation EXCEPT !.transform = Mul(@, tr.tr)],
                             Append(sampled, pos))

\* a getTransformation without the check for an empty chain
MakerGetTransformation_NoEmptyCheck(elements, agg, maker, time, tr, doInterpolation) ==
    LET transformation ==
            Transformation(Identity, maker.sourceFrame, maker.targetFrame, time)
        run == ApplyChain(elements, agg, maker, time, doInterpolation,
                          1, transformation, <<>>)
    IN  IF run.found
        THEN [found |-> TRUE, tr |-> run.transformation, sampled |-> run.sampled]
        ELSE [found |-> FALSE, tr |-> tr, sampled |-> run.sampled]

\* TransformationMakerBase::getTransformation(time, tr, doInterpolation): the
\* returned bool, the caller's tr afterwards and the elements sampled
MakerGetTransformation(elements, agg, maker, time, tr, doInterpolation) ==
    LET transformation ==
            Transformation(Identity, maker.sourceFrame, maker.targetFrame, time)
    IN  IF maker.transformationChain = <<>>
        THEN [found |-> FALSE, tr |-> tr, sampled |-> <<>>]
        ELSE LET run == ApplyChain(elements, agg, maker, time, doInterpolation,
                                   1, transformation, <<>>)
             IN  IF run.found
                 THEN [found |-> TRUE, tr |-> run.transformation, sampled |-> run.sampled]
                 ELSE [found |-> FALSE, tr |-> tr, sampled |-> run.sampled]

\* TransformationMakerBase::setTransformationChain
setTransformationChain(maker, chain) ==
    [maker EXCEPT !.transformationChain = chain]

-----------------------------------------------------------------------------
(* Transformer: the facade *)

\* a loop that resolves only the makers that hold no chain yet
UpdateChains_OnlyEmpty(elements, makers) ==
    [i \in 1..Len(makers) |->
        LET trChain == getTransformationChain(elements, makers[i].sourceFrame,
                                              makers[i].targetFrame, <<>>)
        IN  IF trChain.found /\ makers[i].transformationChain = <<>>
            THEN setTransformationChain(makers[i], trChain.result)
            ELSE makers[i]]

\* a loop that searches each maker's chain from its target to its source
UpdateChains_SwappedFrames(elements, makers) ==
    [i \in 1..Len(makers) |->
        LET trChain == getTransformationChain(elements, makers[i].targetFrame,
                                              makers[i].sourceFrame, <<>>)
        IN  IF trChain.found
            THEN setTransformationChain(makers[i], trChain.result)
            ELSE makers[i]]

\* the re-resolution loop of pushDynamicTransformation over transformationMakers
UpdateChains(elements, makers) ==
    [i \in 1..Len(makers) |->
        LET trChain == getTransformationChain(elements, makers[i].sourceFrame,
                                              makers[i].targetFrame, <<>>)
        IN  IF trChain.found
            THEN setTransformationChain(makers[i], trChain.result)
            ELSE makers[i]]

\* a handler that forwards the sample before it resolves the makers
PushDynamicEvents_SampleFirst(streamIdx, element, makers) ==
    <<[event |-> "registerStream", arg |-> streamIdx],
      [event |-> "transformToStreamIndex", arg |-> streamIdx],
      [event |-> "addTransformation", arg |-> element],
      [event |-> "push", arg |-> streamIdx]>>
    \o [i \in 1..makers |-> [event |-> "getTransformationChain", arg |-> i]]

\* the statements pushDynamicTransformation runs for an unknown pair, in the
\* order the handler runs them: the stream, the table entry, the element,
\* one search per maker, the sample
PushDynamicEvents(streamIdx, element, makers) ==
    <<[event |-> "registerStream", arg |-> streamIdx],
      [event |-> "transformToStreamIndex", arg |-> streamIdx],
      [event |-> "addTransformation", arg |-> element]>>
    \o [i \in 1..makers |-> [event |-> "getTransformationChain", arg |-> i]]
    \o <<[event |-> "push", arg |-> streamIdx]>>

Init ==
    /\ availableElements = <<>>
    /\ transformToStreamIndex = <<>>
    /\ aggregator = <<>>
    /\ transformationMakers = <<>>
    /\ lastCall = [op |-> "none"]

\* a push that resolves the makers again, as the dynamic push does
PushStatic_Resolving(tr, maxAdds) ==
    /\ Len(availableElements) < 2 * maxAdds
    /\ availableElements' = addTransformation(availableElements,
            StaticTransformationElement(tr.from, tr.to, tr.transform))
    /\ transformationMakers' = UpdateChains(availableElements', transformationMakers)
    /\ lastCall' = [op |-> "push_static"]
    /\ UNCHANGED <<transformToStreamIndex, aggregator>>

\* Transformer::pushStaticTransformation(tr)
PushStatic(tr, maxAdds) ==
    /\ Len(availableElements) < 2 * maxAdds
    /\ availableElements' = addTransformation(availableElements,
            StaticTransformationElement(tr.from, tr.to, tr.transform))
    /\ lastCall' = [op |-> "push_static"]
    /\ UNCHANGED <<transformToStreamIndex, aggregator, transformationMakers>>

\* Transformer::pushDynamicTransformation(tr), the pair (tr.from, tr.to) unknown
PushDynamicNew(tr, maxAdds) ==
    /\ <<tr.from, tr.to>> \notin DOMAIN transformToStreamIndex
    /\ Len(availableElements) < 2 * maxAdds
    /\ LET stream == registerStream(aggregator)
           streamIdx == stream.index
           table == (<<tr.from, tr.to>> :> streamIdx) @@ transformToStreamIndex
           dynamicElement == DynamicTransformationElement(tr.from, tr.to, streamIdx)
           elements == addTransformation(availableElements, dynamicElement)
       IN  /\ transformToStreamIndex' = table
           /\ availableElements' = elements
           /\ transformationMakers' = UpdateChains(elements, transformationMakers)
           /\ aggregator' = aggregatorPush(stream.aggregator,
                    table[<<tr.from, tr.to>>], tr.time, tr.transform)
           /\ lastCall' = [op |-> "push_dynamic", registered |-> TRUE,
                            from |-> tr.from, to |-> tr.to, time |-> tr.time,
                            events |-> PushDynamicEvents(streamIdx,
                                Len(elements) - 1, Len(transformationMakers))]

\* a push that forwards the sample under the first stream's index
PushDynamicKnown_FirstStream(tr) ==
    /\ <<tr.from, tr.to>> \in DOMAIN transformToStreamIndex
    /\ LET idx == transformToStreamIndex[<<tr.from, tr.to>>]
           buffer == aggregator[idx + 1]
       IN  /\ \A k \in 1..Len(buffer) : buffer[k].time < tr.time
           /\ aggregator' = aggregatorPush(aggregator, 0, tr.time, tr.transform)
    /\ lastCall' = [op |-> "push_dynamic", registered |-> FALSE,
                    from |-> tr.from, to |-> tr.to, time |-> tr.time,
                    events |-> <<[event |-> "push", arg |-> 0]>>]
    /\ UNCHANGED <<availableElements, transformToStreamIndex, transformationMakers>>

\* Transformer::pushDynamicTransformation(tr), the pair (tr.from, tr.to) known;
\* the samples of one stream arrive in time order
PushDynamicKnown(tr) ==
    /\ <<tr.from, tr.to>> \in DOMAIN transformToStreamIndex
    /\ LET idx == transformToStreamIndex[<<tr.from, tr.to>>]
           buffer == aggregator[idx + 1]
       IN  /\ \A k \in 1..Len(buffer) : buffer[k].time < tr.time
           /\ aggregator' = aggregatorPush(aggregator, idx, tr.time, tr.transform)
    /\ lastCall' = [op |-> "push_dynamic", registered |-> FALSE,
                    from |-> tr.from, to |-> tr.to, time |-> tr.time,
                    events |-> <<[event |-> "push",
                                  arg |-> transformToStreamIndex[<<tr.from, tr.to>>]]>>]
    /\ UNCHANGED <<availableElements, transformToStreamIndex, transformationMakers>>

\* registration of a maker for (from, to): the maker is created, resolved at
\* once and appended to transformationMakers
RegisterTransformation(from, to) ==
    /\ Len(transformationMakers) < MaxMakers
    /\ LET trChain == getTransformationChain(availableElements, from, to, <<>>)
       IN  transformationMakers' = Append(transformationMakers,
                TransformationMaker(from, to, trChain.result))
    /\ lastCall' = [op |-> "register"]
    /\ UNCHANGED <<availableElements, transformToStreamIndex, aggregator>>

\* Transformer::addTransformationChain(from, to, chain)
AddTransformationChain(from, to, chain) ==
    /\ transformationMakers' =
            [i \in 1..Len(transformationMakers) |->
                IF /\ transformationMakers[i].sourceFrame = from
                   /\ transformationMakers[i].targetFrame = to
                THEN setTransformationChain(transformationMakers[i], chain)
                ELSE transformationMakers[i]]
    /\ lastCall' = [op |-> "set_chain"]
    /\ UNCHANGED <<availableElements, transformToStreamIndex, aggregator>>

\* a call of TransformationTree::getTransformationChain(from, to, result) with
\* an empty result vector
FindChain(from, to) ==
    /\ LET trChain == getTransformationChain(availableElements, from, to, <<>>)
       IN  lastCall' = [op |-> "find_chain", from |-> from, to |-> to,
                        found |-> trChain.found, result |-> trChain.result]
    /\ UNCHANGED <<availableElements, transformToStreamIndex, aggregator,
                   transformationMakers>>

\* a call of getTransformation(time, tr, doInterpolation) on maker m, the
\* caller's tr holding `before`
Get(m, time, before, doInterpolation) ==
    /\ LET got == MakerGetTransformation(availableElements, aggregator,
                        transformationMakers[m], time, before, doInterpolation)
       IN  lastCall' = [op |-> "get", maker |-> m, time |-> time,
                        doInterpolation |-> doInterpolation, before |-> before,
                        found |-> got.found, tr |-> got.tr, sampled |-> got.sampled]
    /\ UNCHANGED <<availableElements, transformToStreamIndex, aggregator,
                   transformationMakers>>

-----------------------------------------------------------------------------
(* Inputs of the facade specification: a static edge A->B, dynamic streams  *)
(* B->C (samples at both times) and A->C (samples at the later time),       *)
(* makers for A->C and A->A                                                 *)

StaticPushes == {Transformation(R, "A", "B", 0)}
DynamicPushes ==
    {Transformation(x, "B", "C", t) : x \in DynamicTransforms, t \in Times}
    \cup {Transformation(x, "A", "C", 2) : x \in DynamicTransforms}
MakerPairs == {<<"A", "C">>, <<"A", "A">>}

\* an externally supplied chain: the inverse of the first element, then the
\* first element itself
ExternalChains ==
    {chain \in {<<2, 1>>} :
        \A k \in 1..Len(chain) : chain[k] <= Len(availableElements)}

Next ==
    \/ \E tr \in StaticPushes : PushStatic(tr, MaxAdds)
    \/ \E tr \in DynamicPushes : PushDynamicNew(tr, MaxAdds)
    \/ \E tr \in DynamicPushes : PushDynamicKnown(tr)
    \/ \E p \in MakerPairs : RegisterTransformation(p[1], p[2])
    \/ \E p \in MakerPairs, chain \in ExternalChains :
          AddTransformationChain(p[1], p[2], chain)
    \/ \E m \in 1..Len(transformationMakers), t \in Times, b \in BOOLEAN :
          Get(m, t, UnsetTransformation, b)

Spec == Init /\ [][Next]_vars

-----------------------------------------------------------------------------
(* Inputs of the tree specification: four frames, a self-loop, parallel and *)
(* opposite edges of different transforms, a static and a dynamic edge      *)
(* between the same frames, and the line A-B-C-D                            *)

TreeStaticPushes ==
    {Transformation(R, p[1], p[2], 0) :
        p \in {<<"A", "A">>, <<"A", "B">>, <<"B", "C">>, <<"C", "D">>, <<"A", "D">>}}
    \cup {Transformation(S, "B", "A", 0)}

TreeDynamicPairs == {<<"B", "C">>}

TreeNext ==
    \/ \E tr \in TreeStaticPushes : PushStatic(tr, MaxTreeAdds)
    \/ \E p \in TreeDynamicPairs, t \in Times, x \in DynamicTransforms :
          PushDynamicNew(Transformation(x, p[1], p[2], t), MaxTreeAdds)
    \/ \E from \in Frames, to \in Frames : FindChain(from, to)

SpecTree == Init /\ [][TreeNext]_vars

-----------------------------------------------------------------------------
(* Inputs of the square specification: the four sides of the square         *)
(* A-B-C-D, which holds two equally short routes between opposite corners   *)

SquareStaticPushes ==
    {Transformation(R, p[1], p[2], 0) :
        p \in {<<"A", "B">>, <<"B", "C">>, <<"C", "D">>, <<"A", "D">>}}

SquareNext ==
    \/ \E tr \in SquareStaticPushes : PushStatic(tr, MaxSquareAdds)
    \/ \E from \in Frames, to \in Frames : FindChain(from, to)

SpecSquare == Init /\ [][SquareNext]_vars

-----------------------------------------------------------------------------
(* Inputs of the streams specification: dynamic streams A->B, B->A and      *)
(* B->C with samples at both times, makers for A->C and B->A                *)

StreamPushes ==
    {Transformation(x, p[1], p[2], t) :
        x \in DynamicTransforms, t \in Times,
        p \in {<<"A", "B">>, <<"B", "A">>, <<"B", "C">>}}
StreamMakerPairs == {<<"A", "C">>, <<"B", "A">>}

StreamsNext ==
    \/ \E tr \in StreamPushes : PushDynamicNew(tr, MaxStreamAdds)
    \/ \E tr \in StreamPushes : PushDynamicKnown(tr)
    \/ \E p \in StreamMakerPairs : RegisterTransformation(p[1], p[2])

SpecStreams == Init /\ [][StreamsNext]_vars

-----------------------------------------------------------------------------
(* getTransformationChain run level by level: lastCall holds the loop       *)
(* counter i and curLevel between two iterations of the outer loop.  The    *)
(* caller is single-threaded, so nothing else runs while a search is on.    *)

\* a search has been started and has not returned yet
Seeking == lastCall.op = "seek" /\ ~lastCall.done

\* the entry of getTransformationChain(from, to, result), result empty
SeekStart(from, to) ==
    /\ ~Seeking
    /\ lastCall' = [op |-> "seek", from |-> from, to |-> to, i |-> 0,
                    curLevel |-> <<TransformationNode(from, NULL, 0)>>,
                    found |-> FALSE, result |-> <<>>, done |-> FALSE]
    /\ UNCHANGED <<availableElements, transformToStreamIndex, aggregator,
                   transformationMakers>>

\* a loop over the levels that only stops when the frontier is empty
SeekLevel_Unbounded ==
    /\ Seeking
    /\ IF ~(Len(lastCall.curLevel) > 0)
       THEN lastCall' = [lastCall EXCEPT !.done = TRUE]
       ELSE LET level == ExpandLevel(availableElements, lastCall.to,
                                     lastCall.curLevel, 1, <<>>, lastCall.result)
            IN  IF level.found
                THEN lastCall' = [lastCall EXCEPT !.found = TRUE, !.done = TRUE,
                                                  !.result = level.result,
                                                  !.curLevel = <<>>]
                ELSE lastCall' = [lastCall EXCEPT !.i = @ + 1,
                                                  !.curLevel = level.nextLevel]
    /\ UNCHANGED <<availableElements, transformToStreamIndex, aggregator,
                   transformationMakers>>

\* one test of the loop condition i < maxSeekDepth && curLevel.size() and,
\* when it holds, one run of the loop body: return at a match, else i++ and
\* curLevel = nextLevel; when it fails, return false
SeekLevel ==
    /\ Seeking
    /\ IF ~(lastCall.i < maxSeekDepth /\ Len(lastCall.curLevel) > 0)
       THEN lastCall' = [lastCall EXCEPT !.done = TRUE]
       ELSE LET level == ExpandLevel(availableElements, lastCall.to,
                                     lastCall.curLevel, 1, <<>>, lastCall.result)
            IN  IF level.found
                THEN lastCall' = [lastCall EXCEPT !.found = TRUE, !.done = TRUE,
                                                  !.result = level.result,
                                                  !.curLevel = <<>>]
                ELSE lastCall' = [lastCall EXCEPT !.i = @ + 1,
                                                  !.curLevel = level.nextLevel]
    /\ UNCHANGED <<availableElements, transformToStreamIndex, aggregator,
                   transformationMakers>>

(* Inputs of the search specification: the triangle A->B->C->A (its last    *)
(* side a dynamic stream), a self-loop on A (any element may be added      *)
(* again, which makes it parallel), and makers for the unreachable pair     *)
(* (A, D)                                                                   *)

SeekStaticPushes ==
    {Transformation(R, p[1], p[2], 0) :
        p \in {<<"A", "B">>, <<"B", "C">>, <<"A", "A">>}}
SeekDynamicPushes == {Transformation(S, "C", "A", 1)}
SeekMakerPairs == {<<"A", "D">>}

SeekNext ==
    \/ ~Seeking /\ \E tr \in SeekStaticPushes : PushStatic(tr, MaxSeekAdds)
    \/ ~Seeking /\ \E tr \in SeekDynamicPushes : PushDynamicNew(tr, MaxSeekAdds)
    \/ ~Seeking /\ \E p \in SeekMakerPairs : RegisterTransformation(p[1], p[2])
    \/ ~Seeking /\ \E m \in 1..Len(transformationMakers) :
                      Get(m, 1, UnsetTransformation, FALSE)
    \/ \E from \in Frames, to \in Frames : SeekStart(from, to)
    \/ SeekLevel

\* the caller runs the search to its end
SpecSeek == Init /\ [][SeekNext]_vars /\ WF_vars(SeekLevel)

-----------------------------------------------------------------------------
(* Inputs of the specification without externally supplied chains: static   *)
(* elements A->B and A->C, a dynamic stream B->C with samples at both       *)
(* times, makers for A->C and A->A                                          *)

OwnStaticPushes ==
    {Transformation(R, "A", "B", 0), Transformation(R, "A", "C", 0)}
OwnDynamicPushes ==
    {Transformation(x, "B", "C", t) : x \in DynamicTransforms, t \in Times}

OwnChainsNext ==
    \/ \E tr \in OwnStaticPushes : PushStatic(tr, MaxAdds)
    \/ \E tr \in OwnDynamicPushes : PushDynamicNew(tr, MaxAdds)
    \/ \E tr \in OwnDynamicPushes : PushDynamicKnown(tr)
    \/ \E p \in MakerPairs : RegisterTransformation(p[1], p[2])
    \/ \E m \in 1..Len(transformationMakers), t \in Times, b \in BOOLEAN :
          Get(m, t, UnsetTransformation, b)

SpecOwnChains == Init /\ [][OwnChainsNext]_vars

-----------------------------------------------------------------------------
(* Chains and paths, for the statements below *)

IsFindChain == lastCall.op = "find_chain"
IsGet == lastCall.op = "get"

\* the frames reachable from the frames F over at most n elements
RECURSIVE ReachableWithin(_, _, _)
ReachableWithin(elements, F, n) ==
    IF n = 0 THEN F
    ELSE ReachableWithin(elements,
            F \cup {elements[k].targetFrame :
                        k \in {j \in 1..Len(elements) : elements[j].sourceFrame \in F}},
            n - 1)

\* the element paths of exactly n elements that start at `from`
RECURSIVE PathsFrom(_, _, _)
PathsFrom(elements, from, n) ==
    IF n = 0 THEN {<<>>}
    ELSE UNION {{<<k>> \o p : p \in PathsFrom(elements, elements[k].targetFrame, n - 1)} :
                    k \in {j \in 1..Len(elements) : elements[j].sourceFrame = from}}

\* the element paths of exactly n >= 1 elements from `from` to `to`
PathsBetween(elements, from, to, n) ==
    {p \in PathsFrom(elements, from, n) : elements[p[n]].targetFrame = to}

\* the composition of a chain at a time, as a maker computes it
Composition(chain, time, doInterpolation) ==
    LET got == MakerGetTransformation(availableElements, aggregator,
                    TransformationMaker("", "", chain), time,
                    UnsetTransformation, doInterpolation)
    IN  IF got.found THEN Sample(got.tr.transform) ELSE NoSample

\* the sample of the element at position k
ElementSample(k, time, doInterpolation) ==
    ElementGetTransformation(availableElements, aggregator, k, time, doInterpolation)

\* the positions of the elements added by addTransformation's callers
AddedElements ==
    {k \in 1..Len(availableElements) : availableElements[k].kind # "inverse"}

\* the call recorded in lastCall asked for the chain along element k
AskedAlong(k) ==
    /\ IsFindChain
    /\ lastCall.from = availableElements[k].sourceFrame
    /\ lastCall.to = availableElements[k].targetFrame

\* the tree holds a path of at most n elements from `from` to `to`
PathWithin(elements, from, to, n) ==
    to \in ReachableWithin(elements, {from}, n)

-----------------------------------------------------------------------------
(* C1: a chain returned by getTransformationChain(from, to) is in           *)
(* root-to-leaf order: its first element starts at from, each element ends  *)
(* where the next starts, and its last element ends at to.                  *)
C1_RootToLeafOrder ==
    (IsFindChain /\ lastCall.found) =>
        LET chain == lastCall.result
            k == Len(chain)
        IN  /\ k >= 1
            /\ availableElements[chain[1]].sourceFrame = lastCall.from
            /\ \A i \in 1..(k - 1) :
                  availableElements[chain[i]].targetFrame =
                  availableElements[chain[i + 1]].sourceFrame
            /\ availableElements[chain[k]].targetFrame = lastCall.to

(* C1, amended: a chain returned by getTransformationChain(from, to) is in  *)
(* leaf-to-root order: its first element ends at to, each element starts    *)
(* where the next ends, and its last element starts at from.                *)
C1_LeafToRootOrder ==
    (IsFindChain /\ lastCall.found) =>
        LET chain == lastCall.result
            k == Len(chain)
        IN  /\ k >= 1
            /\ availableElements[chain[1]].targetFrame = lastCall.to
            /\ \A i \in 1..(k - 1) :
                  availableElements[chain[i]].sourceFrame =
                  availableElements[chain[i + 1]].targetFrame
            /\ availableElements[chain[k]].sourceFrame = lastCall.from

\* a chain of two elements was returned
C1_Witness ==
    IsFindChain /\ lastCall.found /\ Len(lastCall.result) = 2

-----------------------------------------------------------------------------
(* C2: for from # to, getTransformationChain(from, to) returns a chain      *)
(* exactly when the tree (inverse elements included) holds a path of at     *)
(* most maxSeekDepth elements from from to to; otherwise it returns false   *)
(* and the caller's result vector stays empty.                              *)
C2_FoundIffPathWithinDepth ==
    (IsFindChain /\ lastCall.from # lastCall.to) =>
        /\ lastCall.found <=>
              PathWithin(availableElements, lastCall.from, lastCall.to, maxSeekDepth)
        /\ ~lastCall.found => lastCall.result = <<>>

\* the frames are connected, but only over more than maxSeekDepth elements
C2_Witness ==
    /\ IsFindChain /\ lastCall.from # lastCall.to /\ ~lastCall.found
    /\ PathWithin(availableElements, lastCall.from, lastCall.to, maxSeekDepth + 1)

-----------------------------------------------------------------------------
(* C3: for every element E ever added, getTransformationChain(E.from, E.to) *)
(* returns a chain whose composition at any time equals E's own sample at   *)
(* that time.                                                               *)
C3_ChainEqualsEdgeSample ==
    \A k \in AddedElements :
        AskedAlong(k) =>
            /\ lastCall.found
            /\ \A t \in Times, b \in BOOLEAN :
                  Composition(lastCall.result, t, b) = ElementSample(k, t, b)

\* the earliest element (added or inverse) from `from` to `to`
EarliestElement(from, to) ==
    CHOOSE j \in 1..Len(availableElements) :
        /\ availableElements[j].sourceFrame = from
        /\ availableElements[j].targetFrame = to
        /\ \A i \in 1..(j - 1) :
              ~(/\ availableElements[i].sourceFrame = from
                /\ availableElements[i].targetFrame = to)

\* no element between the frames of element k, in either direction, precedes it
NoEarlierBetween(k) ==
    \A i \in 1..(k - 1) :
        LET e == availableElements[k]
            d == availableElements[i]
        IN  /\ ~(d.sourceFrame = e.sourceFrame /\ d.targetFrame = e.targetFrame)
            /\ ~(d.sourceFrame = e.targetFrame /\ d.targetFrame = e.sourceFrame)

(* C3, amended: for every element E ever added,                             *)
(* getTransformationChain(E.from, E.to) returns the one-element chain of    *)
(* the earliest element (added or inverse) from E.from to E.to; its         *)
(* composition at any time equals E's own sample at that time when no       *)
(* element between the two frames, in either direction, was added before E. *)
C3_ChainIsEarliestElement ==
    \A k \in AddedElements :
        AskedAlong(k) =>
            /\ lastCall.found
            /\ lastCall.result = <<EarliestElement(lastCall.from, lastCall.to)>>
            /\ NoEarlierBetween(k) =>
                  \A t \in Times, b \in BOOLEAN :
                      Composition(lastCall.result, t, b) = ElementSample(k, t, b)

\* the chain along an added element is another, earlier element
C3_Witness ==
    \E k \in AddedElements :
        /\ AskedAlong(k) /\ lastCall.found /\ lastCall.result # <<k>>
        /\ \E t \in Times :
              Composition(lastCall.result, t, FALSE) # ElementSample(k, t, FALSE)

-----------------------------------------------------------------------------
\* the chain of the opposite call
BackChain ==
    getTransformationChain(availableElements, lastCall.to, lastCall.from, <<>>)

\* the two compositions multiply to the identity wherever both have a sample
ComposeToIdentity(chain, back) ==
    \A t \in Times, b \in BOOLEAN :
        LET f == Composition(chain, t, b)
            g == Composition(back, t, b)
        IN  (f.found /\ g.found) => Mul(f.tr, g.tr) = Identity

(* C4: whenever getTransformationChain(A, B) succeeds,                      *)
(* getTransformationChain(B, A) succeeds too and the composition of the     *)
(* first chain times the composition of the second is the identity.         *)
C4_RoundTripIsIdentity ==
    (IsFindChain /\ lastCall.found) =>
        /\ BackChain.found
        /\ ComposeToIdentity(lastCall.result, BackChain.result)

\* exactly one element path as long as the returned chain leads from A to B
OnlyRoute ==
    Cardinality(PathsBetween(availableElements, lastCall.from, lastCall.to,
                             Len(lastCall.result))) = 1

(* C4, amended: whenever getTransformationChain(A, B) succeeds,             *)
(* getTransformationChain(B, A) succeeds too with a chain of the same       *)
(* length, and the two compositions multiply to the identity when only one  *)
(* path of that length leads from A to B.                                   *)
C4_RoundTripIsIdentityOnOnlyRoute ==
    (IsFindChain /\ lastCall.found) =>
        /\ BackChain.found
        /\ Len(BackChain.result) = Len(lastCall.result)
        /\ OnlyRoute => ComposeToIdentity(lastCall.result, BackChain.result)

\* a chain of two elements along the only route of that length
C4_Witness ==
    /\ IsFindChain /\ lastCall.found /\ Len(lastCall.result) = 2
    /\ OnlyRoute
    /\ Composition(lastCall.result, 1, FALSE).found

-----------------------------------------------------------------------------
(* C5: for every element E ever added (self-loops included), the            *)
(* composition of getTransformationChain(E.to, E.from) is the inverse of    *)
(* the composition of getTransformationChain(E.from, E.to).                 *)
C5_BackChainIsInverse ==
    \A k \in AddedElements :
        AskedAlong(k) =>
            /\ lastCall.found
            /\ BackChain.found
            /\ \A t \in Times, b \in BOOLEAN :
                  LET f == Composition(lastCall.result, t, b)
                      g == Composition(BackChain.result, t, b)
                  IN  /\ f.found = g.found
                      /\ f.found => g.tr = Inverse(f.tr)

-----------------------------------------------------------------------------
(* C6: getTransformationChain(A, A) succeeds with the empty chain, for      *)
(* every frame A and every tree.                                            *)
C6_SameFrameGivesEmptyChain ==
    (IsFindChain /\ lastCall.from = lastCall.to) =>
        (lastCall.found /\ lastCall.result = <<>>)

-----------------------------------------------------------------------------
\* the maker of the getTransformation call recorded in lastCall
CalledMaker == transformationMakers[lastCall.maker]

(* C7: a maker bound to the same source and target frame returns the        *)
(* identity transform from getTransformation at every time.                 *)
C7_SameFrameMakerGivesIdentity ==
    (IsGet /\ CalledMaker.sourceFrame = CalledMaker.targetFrame) =>
        /\ lastCall.found
        /\ lastCall.tr = Transformation(Identity, CalledMaker.sourceFrame,
                                        CalledMaker.targetFrame, lastCall.time)

-----------------------------------------------------------------------------
(* C8: a maker whose chain is empty returns false ("no sample") from        *)
(* getTransformation at every time and for either interpolation flag,       *)
(* samples no element and leaves the caller's tr unchanged.                 *)
C8_EmptyChainGivesNoSample ==
    (IsGet /\ CalledMaker.transformationChain = <<>>) =>
        /\ ~lastCall.found
        /\ lastCall.sampled = <<>>
        /\ lastCall.tr = lastCall.before

\* an interpolating call on a maker without chain, the tree holding elements
C8_Witness ==
    /\ IsGet /\ CalledMaker.transformationChain = <<>>
    /\ lastCall.doInterpolation
    /\ Len(availableElements) > 0

-----------------------------------------------------------------------------
\* the product Identity * ts[1] * ... * ts[n], each factor on the right
RECURSIVE RightProduct(_)
RightProduct(ts) ==
    IF ts = <<>> THEN Identity
    ELSE Mul(RightProduct(SubSeq(ts, 1, Len(ts) - 1)), ts[Len(ts)])

\* the positions of the chain whose element has no sample in the recorded call
Unsampled(chain) ==
    {i \in 1..Len(chain) :
        ~ElementSample(chain[i], lastCall.time, lastCall.doInterpolation).found}

(* C9: getTransformation on a non-empty chain samples the elements in       *)
(* chain order; at the first element without a sample it returns false at   *)
(* once (no later element is sampled, the caller's tr is unchanged);        *)
(* otherwise it returns Identity * T1 * ... * Tk with the maker's source    *)
(* frame, target frame and the requested time.                              *)
C9_ComposesInChainOrder ==
    (IsGet /\ CalledMaker.transformationChain # <<>>) =>
        LET chain == CalledMaker.transformationChain
            missing == Unsampled(chain)
        IN  IF missing # {}
            THEN LET first == CHOOSE i \in missing : \A j \in missing : i <= j
                 IN  /\ ~lastCall.found
                     /\ lastCall.sampled = SubSeq(chain, 1, first)
                     /\ lastCall.tr = lastCall.before
            ELSE /\ lastCall.found
                 /\ lastCall.sampled = chain
                 /\ lastCall.tr =
                        Transformation(
                            RightProduct([i \in 1..Len(chain) |->
                                ElementSample(chain[i], lastCall.time,
                                              lastCall.doInterpolation).tr]),
                            CalledMaker.sourceFrame, CalledMaker.targetFrame,
                            lastCall.time)

\* the first element of a two-element chain has no sample, the second has one
C9_Witness ==
    /\ IsGet /\ Len(CalledMaker.transformationChain) = 2
    /\ Unsampled(CalledMaker.transformationChain) = {1}
    /\ ~lastCall.found

-----------------------------------------------------------------------------
\* the frames at which a walk of 1..n elements can end that starts in one of
\* the states <<previous frame, current frame>> and never steps straight back
RECURSIVE WalkEnds(_, _, _)
WalkEnds(elements, states, n) ==
    IF n = 0 THEN {}
    ELSE LET next ==
                 UNION {{<<st[2], elements[k].targetFrame>> :
                            k \in {j \in 1..Len(elements) :
                                      /\ elements[j].sourceFrame = st[2]
                                      /\ elements[j].targetFrame # st[1]}} :
                        st \in states}
         IN  {st[2] : st \in next} \cup WalkEnds(elements, next, n - 1)

\* `to` is reachable from `from` within maxSeekDepth elements
ReachableWithinDepth(elements, from, to) ==
    to \in WalkEnds(elements, {<<"", from>>}, maxSeekDepth)

(* C10: a pushDynamicTransformation of an unknown pair adds the dynamic     *)
(* element and its inverse, and then every registered maker whose pair is   *)
(* reachable in the updated tree within maxSeekDepth holds the chain that   *)
(* getTransformationChain finds in the updated tree (whatever it held       *)
(* before), while every other maker keeps the chain it had.                 *)
C10_NewStreamReResolvesMakers ==
    [][(DOMAIN transformToStreamIndex' # DOMAIN transformToStreamIndex) =>
        /\ Len(availableElements') = Len(availableElements) + 2
        /\ availableElements'[Len(availableElements) + 1].kind = "dynamic"
        /\ availableElements'[Len(availableElements) + 2].kind = "inverse"
        /\ Len(transformationMakers') = Len(transformationMakers)
        /\ \A i \in 1..Len(transformationMakers) :
              LET before == transformationMakers[i]
                  after == transformationMakers'[i]
              IN  /\ after.sourceFrame = before.sourceFrame
                  /\ after.targetFrame = before.targetFrame
                  /\ IF ReachableWithinDepth(availableElements',
                            before.sourceFrame, before.targetFrame)
                     THEN after.transformationChain =
                            getTransformationChain(availableElements',
                                before.sourceFrame, before.targetFrame, <<>>).result
                     ELSE after.transformationChain = before.transformationChain
      ]_vars

\* a new stream has just given a maker the one-element chain of the new
\* element, although the tree before held a chain of two elements for it
C10_Witness ==
    /\ lastCall.op = "push_dynamic" /\ lastCall.registered
    /\ \E i \in 1..Len(transformationMakers) :
          LET m == transformationMakers[i]
              old == getTransformationChain(
                        SubSeq(availableElements, 1, Len(availableElements) - 2),
                        m.sourceFrame, m.targetFrame, <<>>)
          IN  /\ m.transformationChain = <<Len(availableElements) - 1>>
              /\ old.found /\ Len(old.result) = 2

-----------------------------------------------------------------------------
IsPushDynamic == lastCall.op = "push_dynamic"

\* stream idx is in the table under `pair` and the tree holds its element
RegisteredAndAdded(idx) ==
    \E pair \in DOMAIN transformToStreamIndex :
        /\ transformToStreamIndex[pair] = idx
        /\ \E k \in 1..Len(availableElements) :
              availableElements[k] = DynamicTransformationElement(pair[1], pair[2], idx)

-----------------------------------------------------------------------------
(* C12: pushStaticTransformation appends exactly one static element and     *)
(* its inverse to the tree and changes nothing else: no maker's chain, no   *)
(* entry of the stream table, no stream and no sample of the aggregator; a  *)
(* maker without chain still returns false afterwards.                      *)
C12_PushStaticOnlyAddsElement ==
    [][(lastCall'.op = "push_static") =>
        LET n == Len(availableElements)
        IN  /\ Len(availableElements') = n + 2
            /\ SubSeq(availableElements', 1, n) = availableElements
            /\ availableElements'[n + 1].kind = "static"
            /\ availableElements'[n + 2] =
                  InverseTransformationElement(availableElements'[n + 1], n + 1)
            /\ transformationMakers' = transformationMakers
            /\ transformToStreamIndex' = transformToStreamIndex
            /\ aggregator' = aggregator
            /\ \A i \in 1..Len(transformationMakers), t \in Times, b \in BOOLEAN :
                  transformationMakers[i].transformationChain = <<>> =>
                      ~MakerGetTransformation(availableElements', aggregator',
                            transformationMakers'[i], t, UnsetTransformation, b).found
      ]_vars

\* a static push has just made the pair of a maker reachable, and the maker
\* still holds no chain
C12_Witness ==
    /\ lastCall.op = "push_static"
    /\ \E i \in 1..Len(transformationMakers) :
          LET m == transformationMakers[i]
          IN  /\ m.transformationChain = <<>>
              /\ getTransformationChain(availableElements,
                    m.sourceFrame, m.targetFrame, <<>>).found
              /\ ~getTransformationChain(
                    SubSeq(availableElements, 1, Len(availableElements) - 2),
                    m.sourceFrame, m.targetFrame, <<>>).found

-----------------------------------------------------------------------------
\* the positions of the dynamic elements from pair[1] to pair[2]
DynamicElementsOf(pair) ==
    {k \in 1..Len(availableElements) :
        /\ availableElements[k].kind = "dynamic"
        /\ availableElements[k].sourceFrame = pair[1]
        /\ availableElements[k].targetFrame = pair[2]}

\* the number of samples the aggregator holds
RECURSIVE SampleCount(_)
SampleCount(agg) ==
    IF agg = <<>> THEN 0
    ELSE Len(agg[Len(agg)]) + SampleCount(SubSeq(agg, 1, Len(agg) - 1))

\* one table entry, one stream and one dynamic element per pushed pair
OneStreamPerPair ==
    /\ Len(aggregator) = Cardinality(DOMAIN transformToStreamIndex)
    /\ \A p \in DOMAIN transformToStreamIndex :
          /\ transformToStreamIndex[p] \in 0..(Len(aggregator) - 1)
          /\ Cardinality(DynamicElementsOf(p)) = 1
          /\ \A q \in DOMAIN transformToStreamIndex :
                p # q => transformToStreamIndex[p] # transformToStreamIndex[q]
    /\ \A k \in 1..Len(availableElements) :
          availableElements[k].kind = "dynamic" =>
              <<availableElements[k].sourceFrame, availableElements[k].targetFrame>>
                  \in DOMAIN transformToStreamIndex

\* what a step that is a pushDynamicTransformation does to the table, the
\* streams, the tree and the makers
PushDynamicStep ==
    LET pair == <<lastCall'.from, lastCall'.to>>
        known == pair \in DOMAIN transformToStreamIndex
    IN  /\ DOMAIN transformToStreamIndex' = DOMAIN transformToStreamIndex \cup {pair}
        /\ Len(aggregator') = Len(aggregator) + (IF known THEN 0 ELSE 1)
        /\ SampleCount(aggregator') = SampleCount(aggregator) + 1
        /\ LET buffer == aggregator'[transformToStreamIndex'[pair] + 1]
           IN  /\ Len(buffer) >= 1
               /\ buffer[Len(buffer)].time = lastCall'.time
        /\ known =>
              /\ availableElements' = availableElements
              /\ transformationMakers' = transformationMakers
              /\ LET idx == transformToStreamIndex[pair]
                 IN  /\ Len(aggregator'[idx + 1]) = Len(aggregator[idx + 1]) + 1
                     /\ \A j \in 1..Len(aggregator) :
                           j # idx + 1 => aggregator'[j] = aggregator[j]

(* C13: the stream table holds exactly one entry per ordered pair pushed    *)
(* by pushDynamicTransformation ((A,B) and (B,A) are different pairs), one  *)
(* stream was registered per pair, distinct pairs have distinct indices,    *)
(* no entry is ever changed or removed, and a push of a known pair adds no  *)
(* element, resolves no maker and forwards exactly one sample under the     *)
(* pair's recorded index.                                                   *)
C13_OneStreamPerOrderedPair ==
    /\ []OneStreamPerPair
    /\ [][/\ \A p \in DOMAIN transformToStreamIndex :
                /\ p \in DOMAIN transformToStreamIndex'
                /\ transformToStreamIndex'[p] = transformToStreamIndex[p]
          /\ (lastCall'.op = "push_dynamic") => PushDynamicStep
         ]_vars

\* both directions of a pair are streams of their own, and the last push was
\* a further sample of a known pair, made while a maker held a chain
C13_Witness ==
    /\ IsPushDynamic /\ ~lastCall.registered
    /\ \E p \in DOMAIN transformToStreamIndex :
          /\ <<p[2], p[1]>> \in DOMAIN transformToStreamIndex
          /\ transformToStreamIndex[p] # transformToStreamIndex[<<p[2], p[1]>>]
    /\ transformToStreamIndex[<<lastCall.from, lastCall.to>>] # 0
    /\ \E i \in 1..Len(transformationMakers) :
          transformationMakers[i].transformationChain # <<>>

-----------------------------------------------------------------------------
\* the list is a sequence of pairs: an added element, then the inverse
\* element that wraps it with the frames swapped
EdgeListForm ==
    /\ Len(availableElements) % 2 = 0
    /\ \A k \in 1..Len(availableElements) :
          LET e == availableElements[k]
          IN  IF k % 2 = 1
              THEN e.kind # "inverse"
              ELSE /\ e.kind = "inverse"
                   /\ e.nonInverseElement = k - 1
                   /\ e.sourceFrame = availableElements[k - 1].targetFrame
                   /\ e.targetFrame = availableElements[k - 1].sourceFrame

\* the step in lastCall' is a call that adds an element to the tree
IsAddStep ==
    \/ lastCall'.op = "push_static"
    \/ lastCall'.op = "push_dynamic" /\ lastCall'.registered

(* C14: after any sequence of pushStaticTransformation and                  *)
(* pushDynamicTransformation calls the list of elements has the form        *)
(* [f1, inv(f1), f2, inv(f2), ...]: every added element is followed at once *)
(* by the one inverse element wrapping it, with swapped frames; no inverse  *)
(* wraps an inverse; every add grows the list by two and no other step      *)
(* changes it, so nothing is removed or deduplicated.                       *)
C14_EdgeListIsPairs ==
    /\ []EdgeListForm
    /\ [][/\ SubSeq(availableElements', 1, Len(availableElements)) = availableElements
          /\ Len(availableElements') =
                Len(availableElements) + (IF IsAddStep THEN 2 ELSE 0)
         ]_vars

\* the same static element was added twice and a dynamic element once
C14_Witness ==
    /\ Len(availableElements) = 6
    /\ \E i, j \in AddedElements : i # j /\ availableElements[i] = availableElements[j]
    /\ \E k \in AddedElements : availableElements[k].kind = "dynamic"

-----------------------------------------------------------------------------
(* C15: no chain returned by getTransformationChain has more than           *)
(* maxSeekDepth elements, whatever the tree (cyclic trees included) and     *)
(* whatever the two frames.                                                 *)
C15_ChainWithinSeekDepth ==
    (IsFindChain /\ lastCall.found) => Len(lastCall.result) <= maxSeekDepth

\* all four sides of the square are in the tree, which makes it cyclic, and
\* the returned chain is as long as the depth limit allows
C15_Witness ==
    /\ IsFindChain /\ lastCall.found
    /\ Len(lastCall.result) = maxSeekDepth
    /\ \A tr \in SquareStaticPushes :
          \E k \in AddedElements :
              availableElements[k] =
                  StaticTransformationElement(tr.from, tr.to, tr.transform)

-----------------------------------------------------------------------------
\* elements e and f are an added element and the inverse element wrapping it
InverseSiblings(e, f) ==
    \/ availableElements[f].kind = "inverse" /\ availableElements[f].nonInverseElement = e
    \/ availableElements[e].kind = "inverse" /\ availableElements[e].nonInverseElement = f

(* C16: in a chain returned by getTransformationChain no element is         *)
(* followed on the path by its inverse sibling, and no two elements that    *)
(* follow each other on the path lead from a frame X to a frame Y and       *)
(* straight back to X, not even over a parallel element.  (The chain is     *)
(* stored leaf first: chain[i + 1] is the step before chain[i].)            *)
C16_NoStepStraightBack ==
    (IsFindChain /\ lastCall.found) =>
        \A i \in 1..(Len(lastCall.result) - 1) :
            LET step == lastCall.result[i + 1]
                next == lastCall.result[i]
            IN  /\ ~InverseSiblings(step, next)
                /\ availableElements[next].targetFrame #
                      availableElements[step].sourceFrame

\* a chain of two elements whose middle frame has two elements leading back
\* to the frame the chain starts at
C16_Witness ==
    /\ IsFindChain /\ lastCall.found /\ Len(lastCall.result) = 2
    /\ LET mid == availableElements[lastCall.result[2]].targetFrame
       IN  Cardinality({k \in 1..Len(availableElements) :
                           /\ availableElements[k].sourceFrame = mid
                           /\ availableElements[k].targetFrame = lastCall.from}) >= 2

-----------------------------------------------------------------------------
\* the frames a chain (stored leaf first) visits, the start frame included
FramesVisited(from, chain) ==
    {from} \cup {availableElements[chain[i]].targetFrame : i \in 1..Len(chain)}

\* the chain (stored leaf first) is a path from `from` to `to`
IsPath(from, to, chain) ==
    /\ Len(chain) >= 1
    /\ availableElements[chain[Len(chain)]].sourceFrame = from
    /\ availableElements[chain[1]].targetFrame = to
    /\ \A i \in 1..(Len(chain) - 1) :
          availableElements[chain[i + 1]].targetFrame =
          availableElements[chain[i]].sourceFrame

(* C17: for from # to, the chain returned by getTransformationChain(from,   *)
(* to) has the least number of elements among all paths from from to to in  *)
(* the tree (added and inverse elements each counting one), and it visits   *)
(* no frame twice.                                                          *)
C17_ChainIsShortestPath ==
    (IsFindChain /\ lastCall.found /\ lastCall.from # lastCall.to) =>
        /\ IsPath(lastCall.from, lastCall.to, lastCall.result)
        /\ ~PathWithin(availableElements, lastCall.from, lastCall.to,
                       Len(lastCall.result) - 1)
        /\ Cardinality(FramesVisited(lastCall.from, lastCall.result)) =
              Len(lastCall.result) + 1

\* a chain of two elements in a tree that also holds a walk of three
\* elements between the two frames, over a self-loop or a parallel element
C17_Witness ==
    /\ IsFindChain /\ lastCall.found /\ lastCall.from # lastCall.to
    /\ Len(lastCall.result) = 2
    /\ Cardinality(PathsBetween(availableElements, lastCall.from, lastCall.to, 3)) >= 2

-----------------------------------------------------------------------------
\* a chain read from its start frame on: the stored chain, reversed
FromStart(chain) ==
    [i \in 1..Len(chain) |-> chain[Len(chain) + 1 - i]]

\* of two paths of one length, p uses the earlier element where they first differ
Precedes(p, q) ==
    \E i \in 1..Len(p) :
        /\ p[i] < q[i]
        /\ \A j \in 1..(i - 1) : p[j] = q[j]

\* the list with every element reduced to its two frames
FramesOnly(elements) ==
    [k \in 1..Len(elements) |->
        StaticTransformationElement(elements[k].sourceFrame,
                                    elements[k].targetFrame, Identity)]

\* the paths from `from` to `to` that are as long as the returned chain
Candidates ==
    PathsBetween(availableElements, lastCall.from, lastCall.to, Len(lastCall.result))

(* C18: when several shortest paths lead from from to to (from # to),       *)
(* getTransformationChain returns the one that is first in the order of     *)
(* the element list: read from the start frame on, it uses the earlier      *)
(* element at the first position where it differs from any other shortest   *)
(* path.  The chain depends on nothing but the frames of the elements in    *)
(* list order, from, to and maxSeekDepth.                                   *)
C18_FirstInInsertionOrder ==
    (IsFindChain /\ lastCall.found /\ lastCall.from # lastCall.to) =>
        /\ ~PathWithin(availableElements, lastCall.from, lastCall.to,
                       Len(lastCall.result) - 1)
        /\ FromStart(lastCall.result) \in Candidates
        /\ \A q \in Candidates :
              q # FromStart(lastCall.result) => Precedes(FromStart(lastCall.result), q)
        /\ lastCall.result =
              getTransformationChain(FramesOnly(availableElements),
                                     lastCall.from, lastCall.to, <<>>).result

\* two shortest paths of two elements that part at the start frame, one
\* over each neighbouring corner of the square
C18_Witness ==
    /\ IsFindChain /\ lastCall.found /\ lastCall.from # lastCall.to
    /\ Len(lastCall.result) = 2
    /\ \E q \in Candidates :
          availableElements[q[1]].targetFrame #
              availableElements[FromStart(lastCall.result)[1]].targetFrame

-----------------------------------------------------------------------------
\* the search recorded in lastCall has returned
SeekDone == lastCall.op = "seek" /\ lastCall.done

\* the tree holds the cycle A->B->C->A
HoldsTriangle ==
    \A p \in {<<"A", "B">>, <<"B", "C">>, <<"C", "A">>} :
        \E k \in AddedElements :
            /\ availableElements[k].sourceFrame = p[1]
            /\ availableElements[k].targetFrame = p[2]

\* a search in progress has expanded at most maxSeekDepth levels, and one
\* that has returned gave what getTransformationChain gives: a chain or none
SeekWithinDepth ==
    (lastCall.op = "seek") =>
        /\ lastCall.i <= maxSeekDepth
        /\ lastCall.done =>
              /\ [found |-> lastCall.found, result |-> lastCall.result] =
                    getTransformationChain(availableElements,
                                           lastCall.from, lastCall.to, <<>>)
              /\ ~lastCall.found => lastCall.result = <<>>

(* C19: getTransformationChain terminates for every finite tree and every   *)
(* two frames, trees with the cycle A->B->C->A, parallel elements and       *)
(* self-loops included: every search that was started returns, after at     *)
(* most maxSeekDepth levels, a chain or none.                               *)
C19_SeekTerminates ==
    /\ []SeekWithinDepth
    /\ Seeking ~> SeekDone

\* on a tree holding the cycle A->B->C->A a search has returned none after
\* maxSeekDepth levels, with nodes still waiting on the next level
C19_Witness ==
    /\ SeekDone /\ ~lastCall.found
    /\ lastCall.i = maxSeekDepth
    /\ Len(lastCall.curLevel) > 0
    /\ HoldsTriangle

-----------------------------------------------------------------------------
\* every maker's chain is empty, or holds only elements of the tree that
\* form one path from the maker's source frame to its target frame
ChainsAreOwnedPaths ==
    \A i \in 1..Len(transformationMakers) :
        LET m == transformationMakers[i]
            chain == m.transformationChain
        IN  chain # <<>> =>
                /\ \A k \in 1..Len(chain) : chain[k] \in 1..Len(availableElements)
                /\ IsPath(m.sourceFrame, m.targetFrame, chain)

(* C20: after any sequence of pushStaticTransformation and                  *)
(* pushDynamicTransformation calls, with makers registered at any point and *)
(* no chain supplied from outside, every maker's chain is empty or holds    *)
(* only elements the tree owns, which form one contiguous path (stored leaf *)
(* first) between the maker's source frame and its target frame; a chain    *)
(* that is not empty never becomes empty again.                             *)
C20_MakerChainsAreOwnedPaths ==
    /\ []ChainsAreOwnedPaths
    /\ [][\A i \in 1..Len(transformationMakers) :
             transformationMakers[i].transformationChain # <<>> =>
                 transformationMakers'[i].transformationChain # <<>>
         ]_vars

\* a maker holds a chain of two elements that a dynamic push gave it, while
\* the tree has since gained a shorter path by a static push
C20_Witness ==
    \E i \in 1..Len(transformationMakers) :
        LET m == transformationMakers[i]
        IN  /\ Len(m.transformationChain) = 2
            /\ Len(getTransformationChain(availableElements, m.sourceFrame,
                                          m.targetFrame, <<>>).result) = 1

====
